---- MODULE Spec2Model ----
(***************************************************************************)
(* Model of rendering.py: the ELearningVisualizer dashboard.               *)
(*                                                                         *)
(* Numbers.  The snapshot's float metrics (lesson_difficulty,              *)
(* student_accuracy, engagement_level, interface_efficiency and the        *)
(* entries of aac_button_usage) are carried in hundredths: the integer h   *)
(* stands for the float literal h/100, so the source's thresholds 0.15,    *)
(* 0.25, 0.4 and 0.7 are 15, 25, 40 and 70.  reward and total_reward are   *)
(* carried in tenths.  Formatted text is the number printed, in the unit   *)
(* of its last printed digit: "{:.2f}" of a metric is the hundredths,      *)
(* "{x*100:.1f}%" is tenths of a percent, "{:.1f}" of a reward is tenths.  *)
(*                                                                         *)
(* Optional values.  Python's None is the empty tuple and a present value  *)
(* x is the one-element tuple <<x>>.                                       *)
(*                                                                         *)
(* Instances.  Every field of the visualizer is a function over Vis, the   *)
(* set of visualizer instances, each instance with its own caller and its  *)
(* own pending input events.                                               *)
(***************************************************************************)
EXTENDS Integers, Sequences, FiniteSets, TLC

VARIABLES
    frame_count,           \* self.frame_count
    last_action,           \* self.last_action
    action_display_timer,  \* self.action_display_timer
    screen,                \* what the latest presented frame shows, panel by panel
    event_queue,           \* input events pending in pygame's queue
    polled,                \* the list pygame.event.get() returned in the latest render
    running,               \* the value the latest render returned to its caller
    args,                  \* the arguments the caller holds: those of the latest render
    pc,                    \* where the instance is: "idle" between calls, "tick" inside
                           \* render waiting in clock.tick, "closed" after close()
    failed,                \* the latest render call raised pygame.error
    calls,                 \* history: number of render calls made on the open window
    calls_since_action     \* history: render calls made after the latest one that
                           \* supplied an action, -1 when none ever did

vars == <<frame_count, last_action, action_display_timer, screen, event_queue,
          polled, running, args, pc, failed, calls, calls_since_action>>

(***************************************************************************)
(* Bounds of the model.                                                    *)
(***************************************************************************)
MaxFrames == 10      \* render calls per visualizer
MaxEvents == 2       \* events pending between two render calls
MaxPairFrames == 3   \* render calls per visualizer when two run side by side

Vis == {1, 2}

None == <<>>
Some(x) == <<x>>
Value(o) == o[1]

(***************************************************************************)
(* Program constants.                                                      *)
(***************************************************************************)
COLORS ==
    [background      |-> <<30, 30, 40>>,
     panel           |-> <<50, 50, 60>>,
     button          |-> <<70, 130, 180>>,
     button_hover    |-> <<100, 160, 210>>,
     button_active   |-> <<50, 200, 100>>,
     text            |-> <<255, 255, 255>>,
     text_secondary  |-> <<200, 200, 200>>,
     accent          |-> <<255, 165, 0>>,
     success         |-> <<76, 175, 80>>,
     warning         |-> <<255, 193, 7>>,
     error           |-> <<244, 67, 54>>,
     engagement_high |-> <<76, 175, 80>>,
     engagement_med  |-> <<255, 193, 7>>,
     engagement_low  |-> <<244, 67, 54>>]

fps == 4

aac_symbols == <<"I want", "Help", "Yes", "No", "More", "Stop">>

action_names ==
    <<"Keep current layout",
      "Optimize AAC buttons",
      "Increase difficulty",
      "Decrease difficulty",
      "Provide hint",
      "Predict next word",
      "Adjust button sizes">>

default_button_usage_16 == [i \in 1..6 |-> 16]

\* np.array([0.17] * 6), the default of aac_button_usage
default_button_usage == [i \in 1..6 |-> 17]

\* range(6) of _initialize_button_positions, button i+1 of the list
_initialize_button_positions ==
    [i \in 1..6 |->
        LET row == (i - 1) \div 3
            col == (i - 1) % 3
        IN  <<50 + col * (180 + 20), 500 + row * (120 + 20), 180, 120>>]

(***************************************************************************)
(* dict.get(key, default)                                                  *)
(***************************************************************************)
Get(d, key, default) == IF key \in DOMAIN d THEN d[key] ELSE default

Min(a, b) == IF a < b THEN a ELSE b

(***************************************************************************)
(* _draw_header: static title and subtitle.                                *)
(***************************************************************************)
_draw_header ==
    [title    |-> [text |-> "Adaptive E-Learning & AAC Platform", color |-> COLORS.accent],
     subtitle |-> [text |-> "For Children with Physical Disabilities",
                   color |-> COLORS.text_secondary]]

(***************************************************************************)
(* _draw_lesson_panel                                                      *)
(***************************************************************************)
diff_text_le(difficulty) ==
    IF difficulty < 40 THEN "Easy" ELSE IF difficulty <= 70 THEN "Medium" ELSE "Hard"

diff_text(difficulty) ==
    IF difficulty < 40 THEN "Easy" ELSE IF difficulty < 70 THEN "Medium" ELSE "Hard"

diff_color(difficulty) ==
    IF 40 <= difficulty /\ difficulty <= 70 THEN COLORS.success ELSE COLORS.warning

lesson_items ==
    <<"Topic: Colors and Shapes", "Activity: Match the shape", "Progress: 60% Complete">>

_draw_lesson_panel(env_state) ==
    LET difficulty  == Get(env_state, "lesson_difficulty", 50)
        hints       == Get(env_state, "hints_requested", 0)
        time_lesson == Get(env_state, "time_on_lesson", 0)
    IN  [difficulty_label |-> [text  |-> diff_text(difficulty),
                               value |-> difficulty,
                               color |-> diff_color(difficulty)],
         items     |-> lesson_items,
         hint_text |-> hints,
         time_text |-> time_lesson]

(***************************************************************************)
(* _draw_aac_panel                                                         *)
(***************************************************************************)
button_color_ge(usage) ==
    IF usage >= 25 THEN COLORS.button_active
    ELSE IF usage >= 15 THEN COLORS.button_hover
    ELSE COLORS.button

button_color(usage) ==
    IF usage > 25 THEN COLORS.button_active
    ELSE IF usage > 15 THEN COLORS.button_hover
    ELSE COLORS.button

\* the loop over enumerate(zip(self.aac_symbols, button_usage)): zip stops at
\* the shorter of the two
_draw_aac_panel(self, env_state) ==
    LET button_usage == Get(env_state, "aac_button_usage", default_button_usage)
        n == Min(Len(self.aac_symbols), Len(button_usage))
    IN  [i \in 1..n |->
            [rect       |-> self.button_positions[i],
             color      |-> button_color(button_usage[i]),
             symbol     |-> self.aac_symbols[i],
             usage_text |-> button_usage[i] * 10]]

(***************************************************************************)
(* _draw_metric_bar and _draw_metrics_panel                                *)
(* A bar is its label, its track, its fill colour and its percentage text. *)
(* The fill's pixel width, int(width * value), is a truncated float        *)
(* product that hundredths do not determine and is not part of the record. *)
(***************************************************************************)
_draw_metric_bar(label, value, x, y, width, height, color) ==
    [label      |-> label,
     track      |-> <<x, y, width, height>>,
     color      |-> color,
     value_text |-> value * 10]

engagement_color_ge(engagement) ==
    IF engagement >= 70 THEN COLORS.engagement_high
    ELSE IF engagement >= 40 THEN COLORS.engagement_med
    ELSE COLORS.engagement_low

engagement_color(engagement) ==
    IF engagement > 70 THEN COLORS.engagement_high
    ELSE IF engagement > 40 THEN COLORS.engagement_med
    ELSE COLORS.engagement_low

\* f"{reward:+.1f}" with its colour
reward_text(reward) ==
    [sign   |-> IF reward >= 0 THEN "+" ELSE "-",
     tenths |-> IF reward >= 0 THEN reward ELSE -reward,
     color  |-> IF reward > 0 THEN COLORS.success ELSE COLORS.error]

_draw_metrics_panel_frames(self, env_state, reward, total_reward) ==
    LET accuracy      == Get(env_state, "student_accuracy", 70)
        engagement    == Get(env_state, "engagement_level", 80)
        interface_eff == Get(env_state, "interface_efficiency", 50)
    IN  [accuracy   |-> _draw_metric_bar("Student Accuracy", accuracy,
                                         700, 170, 400, 30, COLORS.success),
         engagement |-> _draw_metric_bar("Engagement", engagement,
                                         700, 220, 400, 30, engagement_color(engagement)),
         efficiency |-> _draw_metric_bar("Interface Efficiency", interface_eff,
                                         700, 270, 400, 30, COLORS.button),
         reward_text |-> IF reward # None THEN Some(reward_text(Value(reward))) ELSE None,
         total_text  |-> IF total_reward # None THEN total_reward ELSE None,
         step_text   |-> <<self.frame_count, 200>>]

_draw_metrics_panel(self, env_state, reward, total_reward) ==
    LET accuracy      == Get(env_state, "student_accuracy", 70)
        engagement    == Get(env_state, "engagement_level", 80)
        interface_eff == Get(env_state, "interface_efficiency", 50)
        step          == Get(env_state, "step", 0)
    IN  [accuracy   |-> _draw_metric_bar("Student Accuracy", accuracy,
                                         700, 170, 400, 30, COLORS.success),
         engagement |-> _draw_metric_bar("Engagement", engagement,
                                         700, 220, 400, 30, engagement_color(engagement)),
         efficiency |-> _draw_metric_bar("Interface Efficiency", interface_eff,
                                         700, 270, 400, 30, COLORS.button),
         reward_text |-> IF reward # None THEN Some(reward_text(Value(reward))) ELSE None,
         total_text  |-> IF total_reward # None THEN total_reward ELSE None,
         step_text   |-> <<step, 200>>]

(***************************************************************************)
(* _draw_agent_info_panel                                                  *)
(***************************************************************************)
\* Python's list indexing, seq[i]: a negative index counts from the end
PyIndex(seq, i) == IF i >= 0 THEN seq[i + 1] ELSE seq[Len(seq) + i + 1]

_draw_agent_info_panel_unguarded(action, episode) ==
    [episode |-> episode,
     callout |-> IF action # None /\ Value(action) < Len(action_names)
                    /\ Value(action) >= -Len(action_names)
                 THEN Some(PyIndex(action_names, Value(action)))
                 ELSE None,
     waiting |-> ~(action # None /\ Value(action) < Len(action_names)),
     controls |-> "Press ESC or Q to quit"]

_draw_agent_info_panel(action, episode) ==
    LET in_range == action # None /\ 0 <= Value(action) /\ Value(action) < Len(action_names)
    IN  [episode |-> episode,
         callout |-> IF in_range THEN Some(PyIndex(action_names, Value(action))) ELSE None,
         waiting |-> ~in_range,
         controls |-> "Press ESC or Q to quit"]

(***************************************************************************)
(* render, step by step.  self is the record of the instance's fields.     *)
(***************************************************************************)
Self(v) ==
    [fps                  |-> fps,
     aac_symbols          |-> aac_symbols,
     button_positions     |-> _initialize_button_positions,
     frame_count          |-> frame_count[v],
     last_action          |-> last_action[v],
     action_display_timer |-> action_display_timer[v]]

\* "Update action display": record a supplied action and restart the
\* countdown, then count down by one if still positive
update_action_display_keep(self, action) ==
    LET set == IF action # None /\ self.action_display_timer = 0
               THEN [self EXCEPT !.last_action = action,
                                 !.action_display_timer = 2 * self.fps]
               ELSE self
    IN  IF set.action_display_timer > 0
        THEN [set EXCEPT !.action_display_timer = @ - 1]
        ELSE set

update_action_display(self, action) ==
    LET set == IF action # None
               THEN [self EXCEPT !.last_action = action,
                                 !.action_display_timer = 2 * self.fps]
               ELSE self
    IN  IF set.action_display_timer > 0
        THEN [set EXCEPT !.action_display_timer = @ - 1]
        ELSE set

\* the action handed to the agent panel
visible_action(self) ==
    IF self.action_display_timer > 0 THEN self.last_action ELSE None

\* "Update display": flip, pace, count the frame
update_display_restart(self) == [self EXCEPT !.frame_count = 1]

update_display(self) == [self EXCEPT !.frame_count = @ + 1]

\* "Handle events": the loop over the drained events
RECURSIVE handle_events_no_q(_)
handle_events_no_q(events) ==
    IF events = <<>> THEN TRUE
    ELSE LET event == Head(events)
         IN  IF event.type = "QUIT" THEN FALSE
             ELSE IF event.type = "KEYDOWN" /\ event.key = "K_ESCAPE" THEN FALSE
             ELSE handle_events_no_q(Tail(events))

RECURSIVE handle_events(_)
handle_events(events) ==
    IF events = <<>> THEN TRUE
    ELSE LET event == Head(events)
         IN  IF event.type = "QUIT" THEN FALSE
             ELSE IF event.type = "KEYDOWN"
                     /\ (event.key = "K_ESCAPE" \/ event.key = "K_q") THEN FALSE
             ELSE handle_events(Tail(events))

(***************************************************************************)
(* Actions.                                                                *)
(***************************************************************************)
\* the window system queues an input event for instance v, between two render
\* calls or while render waits in clock.tick
PostEvent(v, e) ==
    /\ pc[v] # "closed"
    /\ Len(event_queue[v]) < MaxEvents
    /\ event_queue' = [event_queue EXCEPT ![v] = Append(@, e)]
    /\ UNCHANGED <<frame_count, last_action, action_display_timer, screen,
                   polled, running, args, pc, failed, calls, calls_since_action>>

\* the caller of instance v calls
\* render(a.env_state, a.action, a.reward, a.episode, a.total_reward):
\* the countdown is updated, the panels are drawn, the frame is flipped and
\* render waits in self.clock.tick(self.fps)
RenderBegin(v, a) ==
    /\ pc[v] = "idle"
    /\ frame_count[v] < MaxFrames
    /\ LET updated == update_action_display(Self(v), a.action)
           frame   == [lesson  |-> _draw_lesson_panel(a.env_state),
                       aac     |-> _draw_aac_panel(updated, a.env_state),
                       metrics |-> _draw_metrics_panel(updated, a.env_state,
                                                       a.reward, a.total_reward),
                       agent   |-> _draw_agent_info_panel(visible_action(updated),
                                                          a.episode),
                       header  |-> _draw_header]
       IN  /\ last_action' = [last_action EXCEPT ![v] = updated.last_action]
           /\ action_display_timer' =
                  [action_display_timer EXCEPT ![v] = updated.action_display_timer]
           /\ screen' = [screen EXCEPT ![v] = frame]
    /\ pc' = [pc EXCEPT ![v] = "tick"]
    /\ failed' = [failed EXCEPT ![v] = FALSE]
    /\ args' = [args EXCEPT ![v] = a]
    /\ calls' = [calls EXCEPT ![v] = @ + 1]
    /\ calls_since_action' =
           [calls_since_action EXCEPT ![v] =
               IF a.action # None THEN 0 ELSE IF @ = -1 THEN -1 ELSE @ + 1]
    /\ UNCHANGED <<frame_count, event_queue, polled, running>>

\* the wait of clock.tick is over: the frame is counted, the pending events
\* are drained and render returns
RenderEnd(v) ==
    /\ pc[v] = "tick"
    /\ LET presented == update_display(Self(v))
           events    == event_queue[v]
       IN  /\ frame_count' = [frame_count EXCEPT ![v] = presented.frame_count]
           /\ event_queue' = [event_queue EXCEPT ![v] = <<>>]
           /\ polled' = [polled EXCEPT ![v] = events]
           /\ running' = [running EXCEPT ![v] = handle_events(events)]
    /\ pc' = [pc EXCEPT ![v] = "idle"]
    /\ UNCHANGED <<last_action, action_display_timer, screen, args, failed,
                   calls, calls_since_action>>

\* close(): pygame.quit() tears down the window and the event queue
Close(v) ==
    /\ pc[v] = "idle"
    /\ pc' = [pc EXCEPT ![v] = "closed"]
    /\ screen' = [screen EXCEPT ![v] = None]
    /\ event_queue' = [event_queue EXCEPT ![v] = <<>>]
    /\ UNCHANGED <<frame_count, last_action, action_display_timer, polled,
                   running, args, failed, calls, calls_since_action>>

\* render on a closed visualizer: self.screen.fill raises pygame.error before
\* any field is touched, and nothing is returned
RenderClosed(v) ==
    /\ pc[v] = "closed"
    /\ failed' = [failed EXCEPT ![v] = TRUE]
    /\ UNCHANGED <<frame_count, last_action, action_display_timer, screen,
                   event_queue, polled, running, args, pc, calls, calls_since_action>>

(***************************************************************************)
(* Inputs.                                                                 *)
(***************************************************************************)
Restrict(f, S) == [k \in S |-> f[k]]

Keys == {"lesson_difficulty", "student_accuracy", "engagement_level",
         "hints_requested", "time_on_lesson", "interface_efficiency",
         "aac_button_usage", "step"}

\* the two snapshots of the module's own demonstration
test_state_1 ==
    [lesson_difficulty |-> 50, student_accuracy |-> 70, engagement_level |-> 80,
     hints_requested |-> 2, time_on_lesson |-> 15, interface_efficiency |-> 60,
     aac_button_usage |-> <<25, 15, 20, 10, 20, 10>>, step |-> 15]

test_state_2 ==
    [lesson_difficulty |-> 60, student_accuracy |-> 75, engagement_level |-> 85,
     hints_requested |-> 2, time_on_lesson |-> 20, interface_efficiency |-> 70,
     aac_button_usage |-> <<30, 15, 15, 10, 20, 10>>, step |-> 20]

EmptyState == Restrict(test_state_1, {})

\* render's parameters at their defaults, before any call
NoArgs ==
    [env_state |-> EmptyState, action |-> None, reward |-> None,
     episode |-> None, total_reward |-> None]

QUIT == [type |-> "QUIT"]
KeyDown(k) == [type |-> "KEYDOWN", key |-> k]
KeyUp(k) == [type |-> "KEYUP", key |-> k]

AllEvents == {QUIT, KeyDown("K_ESCAPE"), KeyDown("K_q"), KeyDown("K_a"), KeyUp("K_ESCAPE")}
MainEvents == {QUIT, KeyDown("K_a")}

ActionValues == {None, Some(-1), Some(0), Some(3), Some(6), Some(7)}

MainArgs ==
    [env_state : {test_state_1}, action : ActionValues, reward : {None},
     episode : {None, Some(1)}, total_reward : {None}]

EventArgs ==
    [env_state : {EmptyState, test_state_1}, action : {None}, reward : {None},
     episode : {None}, total_reward : {None}]

DifficultyValues == {0, 39, 40, 41, 69, 70, 71, 100}
EngagementValues == {0, 39, 40, 41, 69, 70, 71, 100}
UsageValues == {15, 16, 25, 26}

PanelStates ==
    {[test_state_1 EXCEPT !.lesson_difficulty = d] : d \in DifficultyValues}
    \cup {[test_state_1 EXCEPT !.engagement_level = e] : e \in EngagementValues}
    \cup {[test_state_1 EXCEPT !.aac_button_usage = u] : u \in [1..6 -> UsageValues]}
    \cup {Restrict(test_state_1, S) : S \in SUBSET Keys}

PanelArgs ==
    [env_state : PanelStates, action : {None}, reward : {Some(-5)},
     episode : {None}, total_reward : {Some(12)}]

PairArgs ==
    [env_state : {test_state_1, test_state_2}, action : {None, Some(1)},
     reward : {None, Some(12)}, episode : {None}, total_reward : {None}]

(***************************************************************************)
(* Specifications.                                                         *)
(***************************************************************************)
\* the state after construction, whatever the callers hold
Constructed ==
    /\ frame_count = [v \in Vis |-> 0]
    /\ last_action = [v \in Vis |-> None]
    /\ action_display_timer = [v \in Vis |-> 0]
    /\ screen = [v \in Vis |-> None]
    /\ event_queue = [v \in Vis |-> <<>>]
    /\ polled = [v \in Vis |-> <<>>]
    /\ running = [v \in Vis |-> TRUE]
    /\ pc = [v \in Vis |-> "idle"]
    /\ failed = [v \in Vis |-> FALSE]
    /\ calls = [v \in Vis |-> 0]
    /\ calls_since_action = [v \in Vis |-> -1]

Init == Constructed /\ args = [v \in Vis |-> NoArgs]

\* the rest of a visualizer's life, the same under every specification
Finish == RenderEnd(1)
Shutdown == Close(1)
RenderAfterClose == RenderClosed(1)
Lifecycle == Finish \/ Shutdown \/ RenderAfterClose

\* one visualizer, its caller choosing the action of every call
PostMain == \E e \in MainEvents : PostEvent(1, e)
RenderMain == \E a \in MainArgs : RenderBegin(1, a)
Next == PostMain \/ RenderMain \/ Lifecycle
Spec == Init /\ [][Next]_vars

\* one visualizer, any input events, the caller rendering the snapshot it holds
InitEvents == Constructed /\ args \in {[v \in Vis |-> IF v = 1 THEN a ELSE NoArgs] : a \in EventArgs}
PostAny == \E e \in AllEvents : PostEvent(1, e)
RenderHeld == RenderBegin(1, args[1])
NextEvents == PostAny \/ RenderHeld \/ Lifecycle
SpecEvents == InitEvents /\ [][NextEvents]_vars

\* one visualizer, the caller rendering the snapshot it holds
InitPanels == Constructed /\ args \in {[v \in Vis |-> IF v = 1 THEN a ELSE NoArgs] : a \in PanelArgs}
RenderPanels == RenderBegin(1, args[1])
NextPanels == RenderPanels \/ Lifecycle
SpecPanels == InitPanels /\ [][NextPanels]_vars

\* two visualizers rendered independently of each other
RenderEither ==
    \E v \in Vis, a \in PairArgs : frame_count[v] < MaxPairFrames /\ RenderBegin(v, a)
FinishEither == \E v \in Vis : RenderEnd(v)
ShutdownEither == \E v \in Vis : Close(v)
RenderAfterCloseEither == \E v \in Vis : RenderClosed(v)
NextPair == RenderEither \/ FinishEither \/ ShutdownEither \/ RenderAfterCloseEither
SpecPair == Init /\ [][NextPair]_vars

(***************************************************************************)
(* Vocabulary of the properties.                                           *)
(***************************************************************************)
\* a frame of instance v is on screen
Presented(v) == screen[v] # None

\* a render call of instance v has returned
Returned(v) == frame_count[v] > 0

ValidAction(a) == a # None /\ Value(a) \in 0..6

ShowsCallout(v) == screen[v].agent.callout # None /\ ~screen[v].agent.waiting
ShowsWaiting(v) == screen[v].agent.callout = None /\ screen[v].agent.waiting

IsExitEvent(e) ==
    \/ e.type = "QUIT"
    \/ e.type = "KEYDOWN" /\ e.key \in {"K_ESCAPE", "K_q"}

Max(a, b) == IF a > b THEN a ELSE b

(***************************************************************************)
(* C1.  After a render call that supplies an action, the callout stays     *)
(* visible for exactly 2 x fps subsequent render calls (8 at fps = 4), and *)
(* the call after those shows the waiting placeholder.                     *)
(***************************************************************************)
C1_CalloutLastsTwoSeconds ==
    \A v \in Vis :
        (Presented(v) /\ ValidAction(last_action[v])) =>
            /\ calls_since_action[v] \in 0..(2 * fps) => ShowsCallout(v)
            /\ calls_since_action[v] = 2 * fps + 1 => ShowsWaiting(v)

(***************************************************************************)
(* C2.  render returns false exactly when the drained events hold a        *)
(* window-close event or a key press of Escape or Q, at any position of    *)
(* the list, and true otherwise, whatever the snapshot.                    *)
(***************************************************************************)
C2_ReturnsFalseIffExitEvent ==
    \A v \in Vis :
        Returned(v) =>
            (running[v] = FALSE <=> \E i \in 1..Len(polled[v]) : IsExitEvent(polled[v][i]))

C2_Witness ==
    /\ Returned(1)
    /\ Len(polled[1]) >= 2
    /\ polled[1][1] = KeyUp("K_ESCAPE")
    /\ polled[1][Len(polled[1])] = KeyDown("K_q")
    /\ running[1] = FALSE

(***************************************************************************)
(* C3.  As claimed: difficulty 0.39 shows "Easy" in the warning colour,    *)
(* 0.40 "Medium" in the success colour, 0.70 "Medium" in the success       *)
(* colour, 0.71 "Hard" in the warning colour.                              *)
(***************************************************************************)
ShowsDifficulty(v, d, text, color) ==
    (Presented(v) /\ Get(args[v].env_state, "lesson_difficulty", 50) = d) =>
        /\ screen[v].lesson.difficulty_label.text = text
        /\ screen[v].lesson.difficulty_label.color = color

C3_Original ==
    \A v \in Vis :
        /\ ShowsDifficulty(v, 39, "Easy", COLORS.warning)
        /\ ShowsDifficulty(v, 40, "Medium", COLORS.success)
        /\ ShowsDifficulty(v, 70, "Medium", COLORS.success)
        /\ ShowsDifficulty(v, 71, "Hard", COLORS.warning)

(***************************************************************************)
(* C3, amended.  Difficulty 0.39 shows "Easy" in the warning colour, 0.40  *)
(* "Medium" in the success colour, 0.70 "Hard" in the success colour, 0.71 *)
(* "Hard" in the warning colour.                                           *)
(***************************************************************************)
C3_Amended ==
    \A v \in Vis :
        /\ ShowsDifficulty(v, 39, "Easy", COLORS.warning)
        /\ ShowsDifficulty(v, 40, "Medium", COLORS.success)
        /\ ShowsDifficulty(v, 70, "Hard", COLORS.success)
        /\ ShowsDifficulty(v, 71, "Hard", COLORS.warning)

C3_Witness ==
    /\ Presented(1)
    /\ "lesson_difficulty" \in DOMAIN args[1].env_state
    /\ args[1].env_state.lesson_difficulty = 70
    /\ screen[1].lesson.difficulty_label.text = "Hard"
    /\ screen[1].lesson.difficulty_label.color = COLORS.success

(***************************************************************************)
(* C4.  The engagement bar is in the high tier when engagement > 0.7, in   *)
(* the medium tier when 0.4 < engagement <= 0.7 and in the low tier when   *)
(* engagement <= 0.4.                                                      *)
(***************************************************************************)
C4_EngagementTiers ==
    \A v \in Vis :
        Presented(v) =>
            LET e == Get(args[v].env_state, "engagement_level", 80)
                c == screen[v].metrics.engagement.color
            IN  /\ e > 70 => c = COLORS.engagement_high
                /\ (40 < e /\ e <= 70) => c = COLORS.engagement_med
                /\ e <= 40 => c = COLORS.engagement_low

C4_Witness ==
    /\ Presented(1)
    /\ "engagement_level" \in DOMAIN args[1].env_state
    /\ args[1].env_state.engagement_level = 70
    /\ screen[1].metrics.engagement.color = COLORS.engagement_med

(***************************************************************************)
(* C5.  For a 6-entry aac_button_usage, button i is in the active tier     *)
(* when usage[i] > 0.25, in the hover tier when 0.15 < usage[i] <= 0.25    *)
(* and in the base tier when usage[i] <= 0.15, whatever the other five.    *)
(***************************************************************************)
C5_ButtonTiers ==
    \A v \in Vis :
        (Presented(v) /\ "aac_button_usage" \in DOMAIN args[v].env_state) =>
            LET usage == args[v].env_state.aac_button_usage
            IN  /\ Len(screen[v].aac) = 6
                /\ \A i \in 1..6 :
                    LET c == screen[v].aac[i].color
                    IN  /\ usage[i] > 25 => c = COLORS.button_active
                        /\ (15 < usage[i] /\ usage[i] <= 25) => c = COLORS.button_hover
                        /\ usage[i] <= 15 => c = COLORS.button

C5_Witness ==
    /\ Presented(1)
    /\ "aac_button_usage" \in DOMAIN args[1].env_state
    /\ args[1].env_state.aac_button_usage = <<26, 25, 16, 15, 26, 15>>
    /\ screen[1].aac[2].color = COLORS.button_hover
    /\ screen[1].aac[4].color = COLORS.button
    /\ screen[1].aac[5].color = COLORS.button_active

(***************************************************************************)
(* C6.  As claimed: with any subset of the recognized keys missing, render *)
(* completes and, aac_button_usage being missing, draws all six buttons    *)
(* with the uniform usage 1/6, which prints as "16.7%".                    *)
(***************************************************************************)
Missing(v, key) == Presented(v) /\ key \notin DOMAIN args[v].env_state

C6_Original ==
    \A v \in Vis :
        Missing(v, "aac_button_usage") =>
            /\ Len(screen[v].aac) = 6
            /\ \A i \in 1..6 : screen[v].aac[i].usage_text = 167

(***************************************************************************)
(* C6, amended.  With any subset of the recognized keys missing, render    *)
(* completes and shows the default of every missing key: difficulty 0.50,  *)
(* hints 0, time 0, accuracy 0.7, engagement 0.8, interface efficiency     *)
(* 0.5, step 0, and for a missing aac_button_usage six buttons with the    *)
(* uniform usage 0.17 each, printed "17.0%", in the hover tier.            *)
(***************************************************************************)
C6_Amended ==
    \A v \in Vis :
        /\ (calls[v] > 0 /\ pc[v] = "idle") => (Returned(v) /\ Presented(v) /\ ~failed[v])
        /\ Missing(v, "lesson_difficulty") =>
               screen[v].lesson.difficulty_label =
                   [text |-> "Medium", value |-> 50, color |-> COLORS.success]
        /\ Missing(v, "hints_requested") => screen[v].lesson.hint_text = 0
        /\ Missing(v, "time_on_lesson") => screen[v].lesson.time_text = 0
        /\ Missing(v, "student_accuracy") => screen[v].metrics.accuracy.value_text = 700
        /\ Missing(v, "engagement_level") =>
               /\ screen[v].metrics.engagement.value_text = 800
               /\ screen[v].metrics.engagement.color = COLORS.engagement_high
        /\ Missing(v, "interface_efficiency") =>
               screen[v].metrics.efficiency.value_text = 500
        /\ Missing(v, "step") => screen[v].metrics.step_text = <<0, 200>>
        /\ Missing(v, "aac_button_usage") =>
               /\ Len(screen[v].aac) = 6
               /\ \A i \in 1..6 :
                      /\ screen[v].aac[i].usage_text = 170
                      /\ screen[v].aac[i].color = COLORS.button_hover
                      /\ screen[v].aac[i].symbol = aac_symbols[i]

C6_Witness ==
    /\ Presented(1)
    /\ args[1].env_state = EmptyState
    /\ Len(screen[1].aac) = 6
    /\ screen[1].aac[6].usage_text = 170
    /\ screen[1].metrics.step_text = <<0, 200>>

(***************************************************************************)
(* C7.  The lesson, AAC and metrics panels of a render call are determined *)
(* by that call's snapshot, reward and total_reward alone: two visualizers *)
(* with different histories show the same three panels for the same        *)
(* arguments, and the step shown is the step of the snapshot.              *)
(***************************************************************************)
C7_PanelsIgnoreHistory ==
    /\ \A v \in Vis :
           Presented(v) =>
               screen[v].metrics.step_text = <<Get(args[v].env_state, "step", 0), 200>>
    /\ (/\ Presented(1) /\ Presented(2)
        /\ args[1].env_state = args[2].env_state
        /\ args[1].reward = args[2].reward
        /\ args[1].total_reward = args[2].total_reward)
       => /\ screen[1].lesson = screen[2].lesson
          /\ screen[1].aac = screen[2].aac
          /\ screen[1].metrics = screen[2].metrics

C7_Witness ==
    /\ Presented(1) /\ Presented(2)
    /\ args[1] = args[2]
    /\ args[1].env_state = test_state_2
    /\ frame_count[1] # frame_count[2]
    /\ screen[1].agent # screen[2].agent
    /\ screen[1].metrics = screen[2].metrics
    /\ screen[1].metrics.step_text = <<20, 200>>

(***************************************************************************)
(* C8.  The agent panel shows the callout with the name at index a of the  *)
(* 7-entry action table exactly when the countdown is positive after the   *)
(* decrement and the last recorded action a is in 0..6; otherwise it shows *)
(* the waiting placeholder and no name of the table.  An out-of-range      *)
(* action supplied while a callout is visible replaces it by the           *)
(* placeholder.                                                            *)
(***************************************************************************)
AgentPanelGuarded(v) ==
    Presented(v) =>
        IF action_display_timer[v] > 0 /\ ValidAction(last_action[v])
        THEN /\ screen[v].agent.callout = Some(action_names[Value(last_action[v]) + 1])
             /\ ~screen[v].agent.waiting
        ELSE ShowsWaiting(v)

OutOfRangeReplaces(v) ==
    (/\ Presented(v)
     /\ ShowsCallout(v)
     /\ calls'[v] = calls[v] + 1
     /\ args'[v].action # None
     /\ Value(args'[v].action) \notin 0..6)
    => (screen'[v].agent.callout = None /\ screen'[v].agent.waiting)

C8_GuardedLookup ==
    /\ [](\A v \in Vis : AgentPanelGuarded(v))
    /\ [][\A v \in Vis : OutOfRangeReplaces(v)]_vars

C8_Witness ==
    /\ Presented(1)
    /\ last_action[1] = Some(-1)
    /\ action_display_timer[1] > 0
    /\ ShowsWaiting(1)

(***************************************************************************)
(* C9.  The countdown equals max(0, 2*fps - 1 - k), k being the number of  *)
(* render calls made since the latest call that supplied an action, and is *)
(* 0 when no call ever supplied one; it lies in 0 .. 2*fps - 1 and is      *)
(* positive only when a last action is recorded.                           *)
(***************************************************************************)
C9_CountdownFormula ==
    \A v \in Vis :
        /\ action_display_timer[v] =
               IF calls_since_action[v] = -1 THEN 0
               ELSE Max(0, 2 * fps - 1 - calls_since_action[v])
        /\ action_display_timer[v] \in 0..(2 * fps - 1)
        /\ action_display_timer[v] > 0 => last_action[v] # None

C9_Witness ==
    /\ calls_since_action[1] = 2 * fps
    /\ action_display_timer[1] = 0
    /\ last_action[1] # None

(***************************************************************************)
(* C10.  The frame counter starts at 0 and, whenever no render call is in  *)
(* progress, equals the number of render calls made on the open window,    *)
(* also after a call that returned false; the call in progress is counted  *)
(* when its wait ends, in the step that drains the events; the counter is  *)
(* never decreased or reset, not even by close().                          *)
(***************************************************************************)
C10_FrameCounter ==
    /\ \A v \in Vis : frame_count[v] = 0
    /\ [](\A v \in Vis :
             frame_count[v] = IF pc[v] = "tick" THEN calls[v] - 1 ELSE calls[v])
    /\ [][\A v \in Vis :
             /\ frame_count'[v] >= frame_count[v]
             /\ polled'[v] # polled[v] => frame_count'[v] = frame_count[v] + 1]_vars

C10_Witness ==
    /\ frame_count[1] = 3
    /\ calls[1] = 3
    /\ pc[1] = "idle"
    /\ polled[1] = <<QUIT>>
    /\ running[1] = FALSE
====
